---- MODULE Spec2Model ----
(***************************************************************************)
(* A model of the API Gateway automation layer: the APIGateway client      *)
(* (src/api_gateway.py) and the APIResource node (src/api_resource.py),    *)
(* driven by one sequential caller against the remote control plane.       *)
(* Strings that the code inspects character by character (paths, path      *)
(* parts, HTTP verbs) are sequences of one-character strings.              *)
(***************************************************************************)
EXTENDS Integers, Sequences, FiniteSets, TLC

(* ------------------------------ bounds -------------------------------- *)

\* Operations the caller runs, failed ones included.
MaxOps == 4

\* Operations the caller runs in SpecOptions.
MaxOptionOps == 3

\* create_resource calls the concurrent processes make between them
MaxRaceCalls == 3

(* --------------------------- program constants ------------------------ *)

\* get_resources(restApiId=..., limit=500)
GetResourcesLimit == 500

(* ------------------------------ inputs -------------------------------- *)

None == "None"

\* "a0" exists before the program starts (main.py attaches to an existing
\* Api by id); the others are the ids the remote service hands out.
ApiIds == {"a0", "a1"}

\* The processes that build the tree of the same Api at the same time.
Procs == {1, 2}

Slash == <<"/">>

PathParts == {<<"a">>, <<"b">>, <<"a", "/">>}

Verbs == {<<"G", "E", "T">>, <<"g", "e", "t">>, <<"P", "U", "T">>}

StageNames == {"dev", "prod"}

StageDescriptions == {"", "d1"}

\* add_integration's positional arguments as the callers pass them; an
\* argument left out (None) is the empty string.
IntegrationArgs ==
    {[type |-> "MOCK", integration_http_method |-> <<>>, uri |-> "",
      credentials |-> ""],
     [type |-> "AWS", integration_http_method |-> <<"P", "O", "S", "T">>,
      uri |-> "arn:action", credentials |-> "arn:role"]}

\* Names and values of add_integration's extra options (**kwargs).
OptionNames == {"request_templates", "requestTemplates", "bogus"}

OptionValues == {"v1", "v2"}

Option == OptionNames \X OptionValues

\* **kwargs: options in the order the caller wrote them, no name twice.
Kwargs ==
    {<<>>} \cup {<<o>> : o \in Option}
           \cup {<<o1, o2>> : <<o1, o2>> \in
                    {x \in Option \X Option : x[1][1] # x[2][1]}}

VARIABLES
    apis,                 \* remote: ids of the existing rest Apis
    remote_resources,     \* remote: [api, id, parentId, pathPart, path]
    remote_methods,       \* remote: <<resourceId, httpMethod>> having a method
    remote_method_responses,      \* remote: <<resourceId, httpMethod>> with a 200 response
    remote_integrations,          \* remote: <<resourceId, httpMethod>> having an integration
    remote_integration_responses, \* remote: <<resourceId, httpMethod>> with a 200 integration response
    deployments,          \* remote: [api, id]
    stages,               \* remote: [api, name, description, deploymentId]
    api_id,               \* APIGateway.api_id
    root_resource,        \* APIGateway.root_resource: a node, 0 while the attribute is absent
    resources,            \* APIGateway.resources: resource id -> node
    nodes,                \* the APIResource objects: [api_id, resource_id, path, methods]
    last,                 \* the operation just run: arguments, remote calls, outcome
    ops,                  \* how many operations the caller has run
    procs                 \* processes driving their own APIGateway object against the same Api

vars == <<apis, remote_resources, remote_methods, remote_method_responses,
          remote_integrations, remote_integration_responses, deployments,
          stages, api_id, root_resource, resources, nodes, last, ops, procs>>

remote_vars == <<apis, remote_resources, remote_methods, remote_method_responses,
                 remote_integrations, remote_integration_responses,
                 deployments, stages>>

(* ------------------------------ strings ------------------------------- *)

\* str.rstrip('/')
RECURSIVE rstrip(_)
rstrip(s) ==
    IF s # <<>> /\ s[Len(s)] = "/"
    THEN rstrip(SubSeq(s, 1, Len(s) - 1))
    ELSE s

UpperChar(c) ==
    CASE c = "g" -> "G"
      [] c = "e" -> "E"
      [] c = "t" -> "T"
      [] c = "p" -> "P"
      [] c = "u" -> "U"
      [] OTHER -> c

\* str.upper()
upper(s) == [i \in 1..Len(s) |-> UpperChar(s[i])]

(* ------------------------- the remote service ------------------------- *)

\* The outcome of the k-th remote call of a handler: rejected when the
\* service rejects that call, else what the service's state gives.
Outcome(k, fail, natural) == IF fail = k THEN "error" ELSE natural

Call(name, res) == [name |-> name, res |-> res]

\* The exception a caller sees for a failed remote call.
Raised(res) == IF res = "notfound" THEN "NotFound" ELSE "RemoteError"

ResourcesOf(api) == {r \in remote_resources : r.api = api}

\* The first page of get_resources: at most `limit` items, oldest first.
Page(items, limit) ==
    {r \in items : Cardinality({q \in items : q.id < r.id}) < limit}

\* The path the service reports for a child.
RemotePath(parentPath, part) ==
    IF parentPath = Slash THEN Slash \o part ELSE parentPath \o Slash \o part

NewResourceId == Cardinality(remote_resources) + 1

NewDeploymentId == Cardinality(deployments) + 1

RootOf(api, id) ==
    [api |-> api, id |-> id, parentId |-> 0, pathPart |-> <<>>, path |-> Slash]

(* --------------------------- the caller's view ------------------------ *)

\* APIResource.__init__
APIResource(api, rid, path) ==
    [api_id |-> api, resource_id |-> rid, path |-> path, methods |-> {}]

NoParams == << >>

Idle ==
    [op |-> "", node |-> 0, api |-> None, rid |-> 0, part |-> <<>>,
     verb |-> <<>>, stage |-> "", sdesc |-> "", kwargs |-> <<>>,
     status |-> "", ret |-> 0, calls |-> <<>>, params |-> NoParams]

\* A process that has not built its APIGateway object.
NotStarted ==
    [pc |-> "off", api_id |-> None, nodes |-> << >>, resources |-> << >>,
     parent |-> 0, part |-> << >>, fail |-> 0, items |-> {}, done |-> 0,
     last |-> [status |-> "", calls |-> << >>, ret |-> 0]]

Init ==
    /\ apis = {"a0"}
    /\ remote_resources = {RootOf("a0", 1)}
    /\ remote_methods = {}
    /\ remote_method_responses = {}
    /\ remote_integrations = {}
    /\ remote_integration_responses = {}
    /\ deployments = {}
    /\ stages = {}
    /\ api_id = None
    /\ root_resource = 0
    /\ resources = << >>
    /\ nodes = << >>
    /\ last = Idle
    /\ ops = 0
    /\ procs = [p \in Procs |-> NotStarted]

(* ----------------------- APIGateway: the Api --------------------------- *)

\* The guard left out.
not_created_unchecked(api) == FALSE

\* `if not self.api_id` (lines 112, 143, 175, 239)
not_created(api) == api = None

\* self.resources[rid] = node
CachePut(cache, rid, node) ==
    [r \in DOMAIN cache \cup {rid} |-> IF r = rid THEN node ELSE cache[r]]

\* _init_root_resource, run as the k-th remote call of a handler, against
\* the resources `items` of the Api `api` (self.api_id, already checked to
\* be set by the callers below or by the guard of line 112).
\* Gives the outcome, the remote calls made and the root's resource id.
_init_root_resource(api, exists, items, k, fail) ==
    IF not_created(api)
    THEN [status |-> "ValueError", calls |-> <<>>, rid |-> 0]
    ELSE LET res == Outcome(k, fail, IF exists THEN "ok" ELSE "notfound")
             roots == {r \in items : r.path = Slash}
         IN  IF res # "ok"
             THEN [status |-> Raised(res),
                   calls |-> <<Call("get_resources", res)>>, rid |-> 0]
             ELSE IF roots = {}
             THEN [status |-> "ValueError",
                   calls |-> <<Call("get_resources", res)>>, rid |-> 0]
             ELSE [status |-> "ok",
                   calls |-> <<Call("get_resources", res)>>,
                   rid |-> (CHOOSE r \in roots :
                               \A q \in roots : r.id <= q.id).id]

\* APIGateway.create_rest_api_gateway
create_rest_api_gateway(fail) ==
    LET res == Outcome(1, fail, "ok")
        op  == [Idle EXCEPT !.op = "create_rest_api_gateway", !.api = api_id]
    IN  IF res # "ok"
        THEN /\ last' = [op EXCEPT !.status = Raised(res),
                                   !.calls = <<Call("create_rest_api", res)>>]
             /\ UNCHANGED <<remote_vars, api_id, root_resource, resources, nodes>>
        ELSE \E id \in ApiIds \ apis :
             LET root == RootOf(id, NewResourceId)
                 items == {root}
                 init == _init_root_resource(id, TRUE, items, 2, fail)
                 calls == <<Call("create_rest_api", res)>> \o init.calls
             IN  /\ apis' = apis \cup {id}
                 /\ remote_resources' = remote_resources \cup {root}
                 /\ api_id' = id
                 /\ UNCHANGED <<remote_methods, remote_method_responses,
                                remote_integrations, remote_integration_responses,
                                deployments, stages>>
                 /\ IF init.status = "ok"
                    THEN /\ nodes' = Append(nodes, APIResource(id, init.rid, Slash))
                         /\ root_resource' = Len(nodes) + 1
                         /\ resources' = CachePut(resources, init.rid, Len(nodes) + 1)
                         /\ last' = [op EXCEPT !.status = "ok", !.calls = calls,
                                               !.ret = Len(nodes) + 1]
                    ELSE /\ UNCHANGED <<root_resource, resources, nodes>>
                         /\ last' = [op EXCEPT !.status = init.status,
                                               !.calls = calls]

\* APIGateway.get_api_gateway
get_api_gateway(api_gateway_id, fail) ==
    LET res == Outcome(1, fail,
                       IF api_gateway_id \in apis THEN "ok" ELSE "notfound")
        op  == [Idle EXCEPT !.op = "get_api_gateway", !.api = api_gateway_id,
                            !.calls = <<Call("get_rest_api", res)>>]
    IN  /\ api_id' = IF res = "ok" THEN api_gateway_id ELSE api_id
        /\ last' = [op EXCEPT !.status = IF res = "ok" THEN "ok" ELSE Raised(res)]
        /\ UNCHANGED <<remote_vars, root_resource, resources, nodes>>

\* APIGateway.get_api_details
get_api_details(fail) ==
    LET res == Outcome(1, fail, IF api_id \in apis THEN "ok" ELSE "notfound")
        op  == [Idle EXCEPT !.op = "get_api_details", !.api = api_id]
    IN  /\ last' = IF not_created(api_id)
                   THEN [op EXCEPT !.status = "ValueError"]
                   ELSE [op EXCEPT !.status = IF res = "ok" THEN "ok" ELSE Raised(res),
                                   !.calls = <<Call("get_rest_api", res)>>]
        /\ UNCHANGED <<remote_vars, api_id, root_resource, resources, nodes>>

\* APIGateway.get_root_resource
get_root_resource(fail) ==
    LET op == [Idle EXCEPT !.op = "get_root_resource", !.api = api_id]
        init == _init_root_resource(api_id, api_id \in apis,
                                    ResourcesOf(api_id), 1, fail)
    IN  /\ UNCHANGED <<remote_vars, api_id>>
        /\ IF root_resource # 0
           THEN /\ last' = [op EXCEPT !.status = "ok", !.ret = root_resource]
                /\ UNCHANGED <<root_resource, resources, nodes>>
           ELSE IF init.status = "ok"
           THEN /\ nodes' = Append(nodes, APIResource(api_id, init.rid, Slash))
                /\ root_resource' = Len(nodes) + 1
                /\ resources' = CachePut(resources, init.rid, Len(nodes) + 1)
                /\ last' = [op EXCEPT !.status = "ok", !.calls = init.calls,
                                      !.ret = Len(nodes) + 1]
           ELSE /\ last' = [op EXCEPT !.status = init.status,
                                      !.calls = init.calls]
                /\ UNCHANGED <<root_resource, resources, nodes>>

\* APIGateway.get_resource
get_resource(restApiId, resourceId, fail) ==
    LET found == {r \in ResourcesOf(restApiId) : r.id = resourceId}
        res == Outcome(1, fail, IF found # {} THEN "ok" ELSE "notfound")
        op  == [Idle EXCEPT !.op = "get_resource", !.api = restApiId,
                            !.rid = resourceId,
                            !.calls = <<Call("get_resource", res)>>]
    IN  /\ UNCHANGED <<remote_vars, api_id, root_resource, resources>>
        /\ IF res = "ok"
           THEN /\ nodes' = Append(nodes,
                       APIResource(restApiId, resourceId,
                                   (CHOOSE r \in found : TRUE).path))
                /\ last' = [op EXCEPT !.status = "ok", !.ret = Len(nodes) + 1]
           ELSE /\ last' = [op EXCEPT !.status = Raised(res)]
                /\ UNCHANGED nodes

(* ------------------ APIGateway: the resource tree ---------------------- *)

\* full_path without the rstrip of the parent's path.
full_path_untrimmed(parentPath, path_part) ==
    IF parentPath # Slash
    THEN parentPath \o Slash \o path_part
    ELSE Slash \o path_part

\* The full path create_resource builds for a new child (lines 201-205).
full_path(parentPath, path_part) ==
    IF parentPath # Slash
    THEN rstrip(parentPath) \o Slash \o path_part
    ELSE Slash \o path_part

\* Matching with the item's path compared where its pathPart belongs.
MatchingByPath(items, parentId, path_part) ==
    {item \in items : item.parentId = parentId /\ item.path = path_part}

\* Matching with the item's own id compared where its parentId belongs.
MatchingById(items, parentId, path_part) ==
    {item \in items : item.id = parentId /\ item.pathPart = path_part}

\* The match loop skipped: every call goes on to create.
MatchingNone(items, parentId, path_part) == {}

\* The items of the listing that the loop of lines 183-187 accepts.
Matching(items, parentId, path_part) ==
    {item \in items : item.parentId = parentId /\ item.pathPart = path_part}

\* The first element of a listing (the service lists oldest first).
First(items) == CHOOSE r \in items : \A q \in items : r.id <= q.id

\* APIGateway.create_resource
create_resource(parent, path_part, fail) ==
    LET p     == nodes[parent]
        op    == [Idle EXCEPT !.op = "create_resource", !.api = api_id,
                              !.node = parent, !.rid = p.resource_id,
                              !.part = path_part]
        res1  == Outcome(1, fail, IF api_id \in apis THEN "ok" ELSE "notfound")
        items == Page(ResourcesOf(api_id), GetResourcesLimit)
        found == Matching(items, p.resource_id, path_part)
        known == \E r \in ResourcesOf(api_id) : r.id = p.resource_id
        res2  == Outcome(2, fail, IF known THEN "ok" ELSE "notfound")
        get   == Call("get_resources", res1)
        new   == NewResourceId
    IN  /\ UNCHANGED <<apis, remote_methods, remote_method_responses,
                       remote_integrations, remote_integration_responses,
                       deployments, stages, api_id, root_resource>>
        /\ IF not_created(api_id)
           THEN /\ last' = [op EXCEPT !.status = "ValueError"]
                /\ UNCHANGED <<remote_resources, resources, nodes>>
           ELSE IF res1 # "ok"
           THEN /\ last' = [op EXCEPT !.status = Raised(res1), !.calls = <<get>>]
                /\ UNCHANGED <<remote_resources, resources, nodes>>
           ELSE IF found # {}
           THEN /\ nodes' = Append(nodes,
                       APIResource(api_id, First(found).id, First(found).path))
                /\ last' = [op EXCEPT !.status = "ok", !.calls = <<get>>,
                                      !.ret = Len(nodes) + 1]
                /\ UNCHANGED <<remote_resources, resources>>
           ELSE IF res2 # "ok"
           THEN /\ last' = [op EXCEPT !.status = Raised(res2),
                               !.calls = <<get, Call("create_resource", res2)>>]
                /\ UNCHANGED <<remote_resources, resources, nodes>>
           ELSE /\ remote_resources' = remote_resources \cup
                       {[api |-> api_id, id |-> new, parentId |-> p.resource_id,
                         pathPart |-> path_part,
                         path |-> RemotePath(
                             (CHOOSE r \in ResourcesOf(api_id) :
                                  r.id = p.resource_id).path, path_part)]}
                /\ nodes' = Append(nodes,
                       APIResource(api_id, new, full_path(p.path, path_part)))
                /\ resources' = CachePut(resources, new, Len(nodes) + 1)
                /\ last' = [op EXCEPT !.status = "ok",
                               !.calls = <<get, Call("create_resource", res2)>>,
                               !.ret = Len(nodes) + 1]

(* ---------------------- APIGateway: publishing ------------------------- *)

StagesNamed(api, name) == {s \in stages : s.api = api /\ s.name = name}

\* update_stage patching the wrong field: the deployment stays as it was.
update_stage_not_repointed(api, name, deploymentId) == stages

\* update_stage replacing the stage by a new one of the same name.
update_stage_recreated(api, name, deploymentId) ==
    {s \in stages : ~(s.api = api /\ s.name = name)}
        \cup {[api |-> api, name |-> name, description |-> "",
               deploymentId |-> deploymentId]}

\* update_stage with patchOperations replace /deploymentId (lines 258-268)
update_stage(api, name, deploymentId) ==
    {IF s.api = api /\ s.name = name
     THEN [s EXCEPT !.deploymentId = deploymentId]
     ELSE s : s \in stages}

\* create_stage (lines 273-278)
create_stage(api, name, deploymentId, description) ==
    stages \cup {[api |-> api, name |-> name, description |-> description,
                  deploymentId |-> deploymentId]}

\* UpsertStage with `except Exception` where line 271 has
\* `except NotFoundException`: any failure of the lookup or the update
\* falls through to create_stage.
UpsertStage_catch_all(api, name, description, deploymentId, fail) ==
    LET there  == StagesNamed(api, name) # {}
        res2   == Outcome(2, fail, IF there THEN "ok" ELSE "notfound")
        res3   == Outcome(3, fail, IF there THEN "ok" ELSE "notfound")
        get    == Call("get_stage", res2)
        upd    == Call("update_stage", res3)
        tried  == IF res2 = "ok" THEN <<get, upd>> ELSE <<get>>
        resC   == Outcome(Len(tried) + 2, fail, IF there THEN "error" ELSE "ok")
        crt    == Call("create_stage", resC)
    IN  IF res2 = "ok" /\ res3 = "ok"
        THEN [status |-> "ok", calls |-> tried,
              stages |-> update_stage(api, name, deploymentId)]
        ELSE IF resC = "ok"
        THEN [status |-> "ok", calls |-> Append(tried, crt),
              stages |-> create_stage(api, name, deploymentId, description)]
        ELSE [status |-> Raised(resC), calls |-> Append(tried, crt),
              stages |-> stages]

\* Lines 251-279 of deploy_to_stage: look the stage up, then update it, or
\* create it when the lookup or the update reports that it does not exist.
\* Remote calls 2.. of the handler.
UpsertStage(api, name, description, deploymentId, fail) ==
    LET there  == StagesNamed(api, name) # {}
        res2   == Outcome(2, fail, IF there THEN "ok" ELSE "notfound")
        res3   == Outcome(3, fail, IF there THEN "ok" ELSE "notfound")
        get    == Call("get_stage", res2)
        upd    == Call("update_stage", res3)
        tried  == IF res2 = "ok" THEN <<get, upd>> ELSE <<get>>
        resC   == Outcome(Len(tried) + 2, fail, IF there THEN "error" ELSE "ok")
        crt    == Call("create_stage", resC)
    IN  IF res2 = "ok" /\ res3 = "ok"
        THEN [status |-> "ok", calls |-> tried,
              stages |-> update_stage(api, name, deploymentId)]
        ELSE IF res2 = "error" \/ (res2 = "ok" /\ res3 = "error")
        THEN [status |-> "RemoteError", calls |-> tried, stages |-> stages]
        ELSE IF resC = "ok"
        THEN [status |-> "ok", calls |-> Append(tried, crt),
              stages |-> create_stage(api, name, deploymentId, description)]
        ELSE [status |-> Raised(resC), calls |-> Append(tried, crt),
              stages |-> stages]

\* deploy_to_stage publishing the newest deployment the Api already has
\* instead of a new one, when it has one.
Publish_reusing(api, stage_name, stage_description, fail) ==
    LET mine == {d \in deployments : d.api = api}
        res1 == Outcome(1, fail, IF api \in apis THEN "ok" ELSE "notfound")
        dep  == IF mine = {} THEN [api |-> api, id |-> NewDeploymentId]
                ELSE CHOOSE d \in mine : \A e \in mine : e.id <= d.id
        up   == UpsertStage(api, stage_name, stage_description, dep.id, fail)
        crd  == Call("create_deployment", res1)
    IN  IF res1 # "ok"
        THEN [status |-> Raised(res1), calls |-> <<crd>>,
              deployments |-> deployments, stages |-> stages, ret |-> 0]
        ELSE [status |-> up.status, calls |-> <<crd>> \o up.calls,
              deployments |-> deployments \cup {dep}, stages |-> up.stages,
              ret |-> IF up.status = "ok" THEN dep.id ELSE 0]

\* deploy_to_stage taking its new deployment back when the stage could not
\* be pointed at it.
Publish_rolled_back(api, stage_name, stage_description, fail) ==
    LET res1 == Outcome(1, fail, IF api \in apis THEN "ok" ELSE "notfound")
        dep  == [api |-> api, id |-> NewDeploymentId]
        up   == UpsertStage(api, stage_name, stage_description, dep.id, fail)
        crd  == Call("create_deployment", res1)
    IN  IF res1 # "ok"
        THEN [status |-> Raised(res1), calls |-> <<crd>>,
              deployments |-> deployments, stages |-> stages, ret |-> 0]
        ELSE [status |-> up.status, calls |-> <<crd>> \o up.calls,
              deployments |-> IF up.status = "ok"
                              THEN deployments \cup {dep} ELSE deployments,
              stages |-> up.stages,
              ret |-> IF up.status = "ok" THEN dep.id ELSE 0]

\* The body of deploy_to_stage once the Api is known to be set (lines
\* 244-290): the outcome, the remote calls, the remote deployments and
\* stages afterwards, and the id of the deployment returned.
Publish(api, stage_name, stage_description, fail) ==
    LET res1 == Outcome(1, fail, IF api \in apis THEN "ok" ELSE "notfound")
        dep  == [api |-> api, id |-> NewDeploymentId]
        up   == UpsertStage(api, stage_name, stage_description, dep.id, fail)
        crd  == Call("create_deployment", res1)
    IN  IF res1 # "ok"
        THEN [status |-> Raised(res1), calls |-> <<crd>>,
              deployments |-> deployments, stages |-> stages, ret |-> 0]
        ELSE [status |-> up.status, calls |-> <<crd>> \o up.calls,
              deployments |-> deployments \cup {dep}, stages |-> up.stages,
              ret |-> IF up.status = "ok" THEN dep.id ELSE 0]

\* APIGateway.deploy_to_stage
deploy_to_stage(stage_name, stage_description, fail) ==
    LET op  == [Idle EXCEPT !.op = "deploy_to_stage", !.api = api_id,
                            !.stage = stage_name, !.sdesc = stage_description]
        out == Publish(api_id, stage_name, stage_description, fail)
    IN  /\ UNCHANGED <<apis, remote_resources, remote_methods,
                       remote_method_responses, remote_integrations,
                       remote_integration_responses, api_id, root_resource,
                       resources, nodes>>
        /\ IF not_created(api_id)
           THEN /\ last' = [op EXCEPT !.status = "ValueError"]
                /\ UNCHANGED <<deployments, stages>>
           ELSE /\ deployments' = out.deployments
                /\ stages' = out.stages
                /\ last' = [op EXCEPT !.status = out.status,
                                      !.calls = out.calls, !.ret = out.ret]

(* ------------------------------ APIResource ---------------------------- *)

ResourceExists(api, rid) == \E r \in ResourcesOf(api) : r.id = rid

\* record_method under the verb as the caller wrote it.
record_method_as_given(methods, http_method) == methods \cup {http_method}

\* self.methods[http_method.upper()] = response (line 50)
record_method(methods, http_method) == methods \cup {upper(http_method)}

\* APIResource.add_method (authorization_type and request_parameters are
\* handed to put_method as given and decide nothing here)
add_method(node, http_method, fail) ==
    LET self == nodes[node]
        verb == upper(http_method)
        op   == [Idle EXCEPT !.op = "add_method", !.api = self.api_id,
                             !.node = node, !.rid = self.resource_id,
                             !.verb = http_method]
        res1 == Outcome(1, fail,
                    IF ResourceExists(self.api_id, self.resource_id)
                    THEN "ok" ELSE "notfound")
        res2 == Outcome(2, fail, "ok")
        put  == Call("put_method", res1)
        rsp  == Call("put_method_response", res2)
    IN  /\ UNCHANGED <<apis, remote_resources, remote_integrations,
                       remote_integration_responses, deployments, stages,
                       api_id, root_resource, resources>>
        /\ IF res1 # "ok"
           THEN /\ last' = [op EXCEPT !.status = Raised(res1), !.calls = <<put>>]
                /\ UNCHANGED <<remote_methods, remote_method_responses, nodes>>
           ELSE /\ remote_methods' =
                       remote_methods \cup {<<self.resource_id, verb>>}
                /\ nodes' = [nodes EXCEPT
                               ![node].methods = record_method(@, http_method)]
                /\ remote_method_responses' =
                       IF res2 = "ok"
                       THEN remote_method_responses \cup {<<self.resource_id, verb>>}
                       ELSE remote_method_responses
                /\ last' = [op EXCEPT !.calls = <<put, rsp>>,
                               !.status = IF res2 = "ok" THEN "ok" ELSE Raised(res2)]

\* snake_to_camel (lines 119-130)
snake_to_camel ==
    [k \in {"connection_type", "connection_id", "request_parameters",
            "request_templates", "passthrough_behavior", "cache_namespace",
            "cache_key_parameters", "content_handling", "timeout_in_millis",
            "tls_config"} |->
       CASE k = "connection_type" -> "connectionType"
         [] k = "connection_id" -> "connectionId"
         [] k = "request_parameters" -> "requestParameters"
         [] k = "request_templates" -> "requestTemplates"
         [] k = "passthrough_behavior" -> "passthroughBehavior"
         [] k = "cache_namespace" -> "cacheNamespace"
         [] k = "cache_key_parameters" -> "cacheKeyParameters"
         [] k = "content_handling" -> "contentHandling"
         [] k = "timeout_in_millis" -> "timeoutInMillis"
         [] k = "tls_config" -> "tlsConfig"]

\* valid_params = set(snake_to_camel.values())
valid_params == {snake_to_camel[k] : k \in DOMAIN snake_to_camel}

\* camel_key without the translation table.
camel_key_untranslated(key) == key

\* snake_to_camel.get(key, key)
camel_key(key) ==
    IF key \in DOMAIN snake_to_camel THEN snake_to_camel[key] ELSE key

\* params[key] = value
Put(params, key, value) ==
    [k \in DOMAIN params \cup {key} |-> IF k = key THEN value ELSE params[k]]

\* The loop of lines 134-141 over kwargs.items(), in the caller's order.
RECURSIVE AddOptions(_, _)
AddOptions(params, kwargs) ==
    IF kwargs = <<>>
    THEN params
    ELSE LET key == kwargs[1][1]
             value == kwargs[1][2]
         IN  AddOptions(IF camel_key(key) \in valid_params
                        THEN Put(params, camel_key(key), value)
                        ELSE params,
                        Tail(kwargs))

\* The parameters of put_integration before the options (lines 103-117).
BaseParams(self, http_method, args) ==
    LET ihm == IF args.integration_http_method # <<>>
               THEN args.integration_http_method ELSE upper(http_method)
        p0 == [k \in {"restApiId", "resourceId", "httpMethod", "type"} |->
                 CASE k = "restApiId" -> self.api_id
                   [] k = "resourceId" -> self.resource_id
                   [] k = "httpMethod" -> upper(http_method)
                   [] k = "type" -> args.type]
        p1 == IF args.uri # "" THEN Put(p0, "uri", args.uri) ELSE p0
        p2 == IF ihm # <<>> THEN Put(p1, "integrationHttpMethod", ihm) ELSE p1
    IN  IF args.credentials # ""
        THEN Put(p2, "credentials", args.credentials) ELSE p2

\* has_method asking only whether the node has any method.
has_method_any(self, http_method) == self.methods # {}

\* `http_method.upper() not in self.methods` negated (line 99)
has_method(self, http_method) == upper(http_method) \in self.methods

\* APIResource.add_integration
add_integration(node, http_method, args, kwargs, fail) ==
    LET self == nodes[node]
        verb == upper(http_method)
        op   == [Idle EXCEPT !.op = "add_integration", !.api = self.api_id,
                             !.node = node, !.rid = self.resource_id,
                             !.verb = http_method, !.kwargs = kwargs]
        params == AddOptions(BaseParams(self, http_method, args), kwargs)
        res1 == Outcome(1, fail,
                    IF <<self.resource_id, verb>> \in remote_methods
                    THEN "ok" ELSE "notfound")
        res2 == Outcome(2, fail, "ok")
        put  == Call("put_integration", res1)
        rsp  == Call("put_integration_response", res2)
    IN  /\ UNCHANGED <<apis, remote_resources, remote_methods,
                       remote_method_responses, deployments, stages,
                       api_id, root_resource, resources, nodes>>
        /\ IF ~has_method(self, http_method)
           THEN /\ last' = [op EXCEPT !.status = "ValueError"]
                /\ UNCHANGED <<remote_integrations, remote_integration_responses>>
           ELSE IF res1 # "ok"
           THEN /\ last' = [op EXCEPT !.status = Raised(res1),
                               !.calls = <<put>>, !.params = params]
                /\ UNCHANGED <<remote_integrations, remote_integration_responses>>
           ELSE /\ remote_integrations' =
                       remote_integrations \cup {<<self.resource_id, verb>>}
                /\ remote_integration_responses' =
                       IF res2 = "ok"
                       THEN remote_integration_responses
                                \cup {<<self.resource_id, verb>>}
                       ELSE remote_integration_responses
                /\ last' = [op EXCEPT !.calls = <<put, rsp>>, !.params = params,
                               !.status = IF res2 = "ok" THEN "ok" ELSE Raised(res2)]

(* --------------------------- specification ----------------------------- *)

\* The caller drives the handlers that main.py and the example of
\* api_gateway.py call, and get_api_details. APIResource.create_resource
\* (api_resource.py lines 62-73), which creates a child without looking for
\* it first, has no caller in the repository and is not driven here.

\* The caller runs one more operation, up to `most`.
Step(most) == ops < most /\ ops' = ops + 1 /\ UNCHANGED procs

\* The remote calls of a handler that the service may reject (0: none).
Fails(calls) == 0..calls

\* The extra options the caller passes in the runs of Spec.
KwargsFew == {<<>>, <<<<"request_templates", "v1">>>>}

Next ==
    \/ \E fail \in Fails(2) :
           Step(MaxOps) /\ create_rest_api_gateway(fail)
    \/ \E id \in ApiIds, fail \in Fails(1) :
           Step(MaxOps) /\ get_api_gateway(id, fail)
    \/ \E fail \in Fails(1) :
           Step(MaxOps) /\ get_api_details(fail)
    \/ \E fail \in Fails(1) :
           Step(MaxOps) /\ get_root_resource(fail)
    \/ \E api \in ApiIds, rid \in 1..NewResourceId, fail \in Fails(1) :
           Step(MaxOps) /\ get_resource(api, rid, fail)
    \/ \E parent \in 1..Len(nodes), part \in PathParts, fail \in Fails(2) :
           Step(MaxOps) /\ create_resource(parent, part, fail)
    \/ \E name \in StageNames, d \in StageDescriptions, fail \in Fails(3) :
           Step(MaxOps) /\ deploy_to_stage(name, d, fail)
    \/ \E node \in 1..Len(nodes), verb \in Verbs, fail \in Fails(2) :
           Step(MaxOps) /\ add_method(node, verb, fail)
    \/ \E node \in 1..Len(nodes), verb \in Verbs, args \in IntegrationArgs,
          kwargs \in KwargsFew, fail \in Fails(2) :
           Step(MaxOps) /\ add_integration(node, verb, args, kwargs, fail)

Spec == Init /\ [][Next]_vars

\* The method/integration configurator on its own, on the root node of a
\* new Api, with every combination of extra options.
NextOptions ==
    \/ \E fail \in Fails(2) :
           Step(MaxOptionOps) /\ create_rest_api_gateway(fail)
    \/ \E node \in 1..Len(nodes), verb \in Verbs, fail \in Fails(2) :
           Step(MaxOptionOps) /\ add_method(node, verb, fail)
    \/ \E node \in 1..Len(nodes), verb \in Verbs, args \in IntegrationArgs,
          kwargs \in Kwargs, fail \in Fails(2) :
           Step(MaxOptionOps) /\ add_integration(node, verb, args, kwargs, fail)

SpecOptions == Init /\ [][NextOptions]_vars


(* ------------- two processes building the same resource tree ----------- *)

\* A process that attached to the existing Api "a0" and fetched its root:
\* get_api_gateway("a0") (lines 97-108), then get_root_resource (149-158).
Attached ==
    [NotStarted EXCEPT !.pc = "idle", !.api_id = "a0",
                       !.nodes = <<APIResource("a0", 1, Slash)>>,
                       !.resources = CachePut(<< >>, 1, 1)]

InitRace ==
    /\ apis = {"a0"}
    /\ remote_resources = {RootOf("a0", 1)}
    /\ remote_methods = {}
    /\ remote_method_responses = {}
    /\ remote_integrations = {}
    /\ remote_integration_responses = {}
    /\ deployments = {}
    /\ stages = {}
    /\ api_id = None
    /\ root_resource = 0
    /\ resources = << >>
    /\ nodes = << >>
    /\ last = Idle
    /\ ops = 0
    /\ procs = [p \in Procs |-> Attached]

\* The create_resource calls the processes have started.
RECURSIVE CallsOf(_)
CallsOf(ps) ==
    IF ps = {} THEN 0
    ELSE LET p == CHOOSE q \in ps : TRUE
         IN  procs[p].done + CallsOf(ps \ {p})

RaceCalls == CallsOf(Procs)

\* What SpecRace leaves alone: all but the remote resources and the
\* processes.
race_unchanged ==
    <<apis, remote_methods, remote_method_responses, remote_integrations,
      remote_integration_responses, deployments, stages, api_id,
      root_resource, resources, nodes, last, ops>>

\* create_resource in process p up to the answer of get_resources (lines
\* 175-182): the process now holds the listing it was given.
race_list(p, parent, path_part, fail) ==
    LET self == procs[p]
        res1 == Outcome(1, fail,
                        IF self.api_id \in apis THEN "ok" ELSE "notfound")
        get  == Call("get_resources", res1)
        call == [self EXCEPT !.parent = parent, !.part = path_part,
                             !.fail = fail, !.items = {},
                             !.done = @ + 1]
    IN  /\ self.pc = "idle"
        /\ RaceCalls < MaxRaceCalls
        /\ UNCHANGED <<race_unchanged, remote_resources>>
        /\ IF not_created(self.api_id)
           THEN procs' = [procs EXCEPT ![p] = [call EXCEPT
                    !.last = [status |-> "ValueError", calls |-> << >>,
                              ret |-> 0]]]
           ELSE IF res1 # "ok"
           THEN procs' = [procs EXCEPT ![p] = [call EXCEPT
                    !.last = [status |-> Raised(res1), calls |-> <<get>>,
                              ret |-> 0]]]
           ELSE procs' = [procs EXCEPT ![p] = [call EXCEPT
                    !.pc = "listed",
                    !.items = Page(ResourcesOf(self.api_id), GetResourcesLimit),
                    !.last = [status |-> "", calls |-> <<get>>, ret |-> 0]]]

\* The rest of create_resource in process p (lines 183-218): the match loop
\* over the listing the process holds, then the remote create.
race_finish(p) ==
    LET self  == procs[p]
        par   == self.nodes[self.parent]
        found == Matching(self.items, par.resource_id, self.part)
        known == \E r \in ResourcesOf(self.api_id) : r.id = par.resource_id
        res2  == Outcome(2, self.fail, IF known THEN "ok" ELSE "notfound")
        crt   == Call("create_resource", res2)
        new   == NewResourceId
        node  == Len(self.nodes) + 1
    IN  /\ self.pc = "listed"
        /\ UNCHANGED race_unchanged
        /\ IF found # {}
           THEN /\ procs' = [procs EXCEPT ![p] = [self EXCEPT
                        !.pc = "idle",
                        !.nodes = Append(@, APIResource(self.api_id,
                                      First(found).id, First(found).path)),
                        !.last = [status |-> "ok", calls |-> self.last.calls,
                                  ret |-> node]]]
                /\ UNCHANGED remote_resources
           ELSE IF res2 # "ok"
           THEN /\ procs' = [procs EXCEPT ![p] = [self EXCEPT
                        !.pc = "idle",
                        !.last = [status |-> Raised(res2),
                                  calls |-> Append(self.last.calls, crt),
                                  ret |-> 0]]]
                /\ UNCHANGED remote_resources
           ELSE /\ remote_resources' = remote_resources \cup
                       {[api |-> self.api_id, id |-> new,
                         parentId |-> par.resource_id,
                         pathPart |-> self.part,
                         path |-> RemotePath(
                             (CHOOSE r \in ResourcesOf(self.api_id) :
                                  r.id = par.resource_id).path, self.part)]}
                /\ procs' = [procs EXCEPT ![p] = [self EXCEPT
                        !.pc = "idle",
                        !.nodes = Append(@, APIResource(self.api_id, new,
                                      full_path(par.path, self.part))),
                        !.resources = CachePut(@, new, node),
                        !.last = [status |-> "ok",
                                  calls |-> Append(self.last.calls, crt),
                                  ret |-> node]]]

NextRace ==
    \/ \E p \in Procs :
          \E parent \in 1..Len(procs[p].nodes), part \in PathParts,
             fail \in Fails(2) :
               race_list(p, parent, part, fail)
    \/ \E p \in Procs : race_finish(p)

SpecRace == InitRace /\ [][NextRace]_vars

(* ------------------------------ properties ----------------------------- *)

CallNames(l) == {l.calls[i].name : i \in DOMAIN l.calls}

\* The operation l is a create_resource call that returned a node.
Returned(l) == l.op = "create_resource" /\ l.status = "ok"

\* The operation l is a create_resource call that created its child.
CreatedChild(l) == Returned(l) /\ "create_resource" \in CallNames(l)

Resource(rid) == CHOOSE r \in remote_resources : r.id = rid

\* The path parts from the root down to the resource, each behind a slash.
RECURSIVE SlashJoined(_)
SlashJoined(rid) ==
    IF Resource(rid).parentId = 0
    THEN <<>>
    ELSE SlashJoined(Resource(rid).parentId) \o Slash \o Resource(rid).pathPart

\* No resource from rid up to the root has a path part ending in a slash.
RECURSIVE PlainUpTo(_)
PlainUpTo(rid) ==
    \/ Resource(rid).parentId = 0
    \/ /\ Resource(rid).pathPart[Len(Resource(rid).pathPart)] # "/"
       /\ PlainUpTo(Resource(rid).parentId)

\* s with every trailing slash removed: the longest prefix of s that does
\* not end in a slash.
Trimmed(s) ==
    LET n == CHOOSE n \in 0..Len(s) :
                 /\ n = 0 \/ s[n] # "/"
                 /\ \A i \in (n + 1)..Len(s) : s[i] = "/"
    IN  SubSeq(s, 1, n)

\* C3: the node of a newly created child has as fullPath '/' + pathPart
\* under a parent of path '/', and otherwise the parent's path without its
\* trailing slashes, then '/', then pathPart; with no path part ending in a
\* slash above it, that is the slash-joined path parts from the root down.
C3_FullPath ==
    CreatedChild(last) =>
        LET parent == nodes[last.node]
            child  == nodes[last.ret]
        IN  /\ child.path = IF parent.path = Slash
                            THEN Slash \o last.part
                            ELSE Trimmed(parent.path) \o Slash \o last.part
            /\ PlainUpTo(parent.resource_id) =>
                   child.path = SlashJoined(child.resource_id)

\* A child was created under a parent that is not the root.
C3_Witness ==
    /\ CreatedChild(last)
    /\ nodes[last.node].path # Slash
    /\ PlainUpTo(nodes[last.node].resource_id)

\* C4: add_integration for a verb that add_method never registered on the
\* node fails with the method-not-found error (ValueError) and issues no
\* remote call; and every integration the remote service holds is on a
\* (resource, verb) that has a method.
C4_IntegrationNeedsMethod ==
    /\ (last.op = "add_integration"
           /\ upper(last.verb) \notin nodes[last.node].methods)
       => (last.status = "ValueError" /\ last.calls = <<>>)
    /\ remote_integrations \subseteq remote_methods

\* add_integration was refused on a node that has another verb registered.
C4_Witness ==
    /\ last.op = "add_integration"
    /\ last.status = "ValueError"
    /\ nodes[last.node].methods # {}

\* The operation l is a deploy_to_stage call that returned.
Published(l) == l.op = "deploy_to_stage" /\ l.status = "ok"

StageOf(set, api, name) == CHOOSE s \in set : s.api = api /\ s.name = name

\* C5: a deploy_to_stage call that returns for a stage name the Api does
\* not have yet issues create-stage and no update-stage; the next call, if
\* it is deploy_to_stage with the same stage name on the same Api and
\* returns, issues update-stage and no create-stage, and leaves the stage's
\* deploymentId equal to the id of the deployment it created itself.
C5_CreateThenUpdate ==
    [][/\ (Published(last') /\ StagesNamed(api_id, last'.stage) = {})
          => (/\ "create_stage" \in CallNames(last')
              /\ "update_stage" \notin CallNames(last'))
       /\ (/\ Published(last) /\ "create_stage" \in CallNames(last)
           /\ Published(last')
           /\ last'.api = last.api /\ last'.stage = last.stage)
          => (/\ "update_stage" \in CallNames(last')
              /\ "create_stage" \notin CallNames(last')
              /\ last'.ret \notin {d.id : d \in deployments}
              /\ [api |-> last'.api, id |-> last'.ret] \in deployments'
              /\ StageOf(stages', last'.api, last'.stage).deploymentId
                     = last'.ret)]_vars

\* Three operations in, deploy_to_stage updated a stage: the calls before
\* it established the Api and created that stage.
C5_Witness ==
    /\ ops = 3
    /\ Published(last)
    /\ "update_stage" \in CallNames(last)

\* C6: a deploy_to_stage call on an established Api issues
\* create-deployment as its first remote call; no step removes a
\* deployment; and a deploy_to_stage call that returns leaves the stage on
\* a deployment that did not exist before the call.
C6_DeploymentFirstAppendOnly ==
    [][/\ (last'.op = "deploy_to_stage" /\ api_id # None)
          => (/\ last'.calls # <<>>
              /\ last'.calls[1].name = "create_deployment")
       /\ deployments \subseteq deployments'
       /\ Published(last')
          => (/\ last'.ret \notin {d.id : d \in deployments}
              /\ StageOf(stages', last'.api, last'.stage).deploymentId
                     \notin {d.id : d \in deployments})]_vars

\* deploy_to_stage returned a second time for an existing stage, with two
\* deployments now held by the Api.
C6_Witness ==
    /\ Published(last)
    /\ "update_stage" \in CallNames(last)
    /\ Cardinality({d \in deployments : d.api = last.api}) >= 2
    /\ last.ret = 2

\* C7: a deploy_to_stage call that finds its stage leaves every stage with
\* its Api, name and description, whatever stage_description it is given,
\* and leaves the other stages as they were.
C7_UpdateTouchesOnlyDeployment ==
    [][(last'.op = "deploy_to_stage" /\ api_id # None
           /\ StagesNamed(api_id, last'.stage) # {})
       => /\ Cardinality(stages') = Cardinality(stages)
          /\ \A s \in stages :
                IF s.api = api_id /\ s.name = last'.stage
                THEN \E d \in {s.deploymentId, last'.ret} :
                        [s EXCEPT !.deploymentId = d] \in stages'
                ELSE s \in stages']_vars

\* deploy_to_stage updated a stage whose description is not the
\* stage_description of the call.
C7_Witness ==
    /\ Published(last)
    /\ "update_stage" \in CallNames(last)
    /\ StageOf(stages, last.api, last.stage).description # last.sdesc
    /\ StageOf(stages, last.api, last.stage).deploymentId = last.ret
    /\ Cardinality(stages) = 1

NeedApi ==
    {"create_resource", "deploy_to_stage", "get_root_resource",
     "get_api_details"}

\* C9: while api_id is unset, create_resource, deploy_to_stage,
\* get_root_resource and get_api_details fail with the precondition error
\* (ValueError), issue no remote call, and change neither the remote state
\* nor the local cache, nodes or root.
C9_FailFastWithoutApi ==
    [][(api_id = None /\ last'.op \in NeedApi)
       => /\ last'.status = "ValueError"
          /\ last'.calls = <<>>
          /\ UNCHANGED <<remote_vars, api_id, root_resource, resources,
                         nodes>>]_vars

\* create_resource was refused for want of an Api, on a node the caller
\* got from get_resource.
C9_Witness ==
    /\ last.op = "create_resource"
    /\ last.status = "ValueError"
    /\ api_id = None
    /\ nodes # <<>>

Mutating ==
    {"create_resource", "add_method", "add_integration", "deploy_to_stage"}

\* The remote call that tells deploy_to_stage that the stage is missing.
StageMissing(l, i) ==
    /\ l.op = "deploy_to_stage"
    /\ l.calls[i].name \in {"get_stage", "update_stage"}
    /\ l.calls[i].res = "notfound"

\* C10 as claimed: in create_resource, add_method, add_integration and
\* deploy_to_stage, a remote call that fails is the last remote call of the
\* operation, and the operation raises that failure.
C10_EveryFailureRaised ==
    last.op \in Mutating =>
        \A i \in DOMAIN last.calls :
            last.calls[i].res # "ok" =>
                /\ i = Len(last.calls)
                /\ last.status = Raised(last.calls[i].res)

\* C10 amended: as claimed, except for the not-found answer to the stage
\* lookup (or update) of deploy_to_stage, after which the operation issues
\* create-stage as its last remote call; an operation that fails its
\* precondition issues no remote call, and one that returns has had no
\* other failure.
C10_FailureRaisedButStageMissing ==
    last.op \in Mutating =>
        /\ \A i \in DOMAIN last.calls :
              last.calls[i].res # "ok" =>
                  IF StageMissing(last, i)
                  THEN /\ i + 1 = Len(last.calls)
                       /\ last.calls[i + 1].name = "create_stage"
                  ELSE /\ i = Len(last.calls)
                       /\ last.status = Raised(last.calls[i].res)
        /\ last.status = "ValueError" => last.calls = <<>>
        /\ last.status = "ok" =>
              \A i \in DOMAIN last.calls :
                  last.calls[i].res = "ok" \/ StageMissing(last, i)

\* deploy_to_stage learnt that the stage is missing, and its create-stage
\* call was rejected.
C10_Witness ==
    /\ last.op = "deploy_to_stage"
    /\ last.status = "RemoteError"
    /\ Len(last.calls) = 3
    /\ last.calls[2] = Call("get_stage", "notfound")
    /\ last.calls[3] = Call("create_stage", "error")

\* The caller-facing option names and the provider's field names, as the
\* documentation of put_integration and the callers in main.py use them.
CallerNames ==
    {"connection_type", "connection_id", "request_parameters",
     "request_templates", "passthrough_behavior", "cache_namespace",
     "cache_key_parameters", "content_handling", "timeout_in_millis",
     "tls_config"}

ProviderFields ==
    {"connectionType", "connectionId", "requestParameters",
     "requestTemplates", "passthroughBehavior", "cacheNamespace",
     "cacheKeyParameters", "contentHandling", "timeoutInMillis", "tlsConfig"}

\* The provider field a caller-facing option name stands for, for the
\* names the caller passes here.
ProviderName(name) ==
    IF name = "request_templates" THEN "requestTemplates" ELSE "-"

\* The operation l is an add_integration call that sent put_integration.
SentIntegration(l) ==
    l.op = "add_integration" /\ "put_integration" \in CallNames(l)

\* C8 as claimed: every option with a caller-facing (recognized) name is in
\* the put_integration parameters under its provider field name with its
\* own value, and no other option name is among the parameters.
C8_OptionsTranslated ==
    SentIntegration(last) =>
        \A i \in DOMAIN last.kwargs :
            LET name  == last.kwargs[i][1]
                value == last.kwargs[i][2]
            IN  IF name \in CallerNames
                THEN /\ ProviderName(name) \in DOMAIN last.params
                     /\ last.params[ProviderName(name)] = value
                ELSE name \notin DOMAIN last.params

\* The provider field an option goes to: a caller-facing name goes to its
\* provider field, a provider field name to itself, any other name nowhere.
FieldOf(name) ==
    IF name \in CallerNames THEN ProviderName(name)
    ELSE IF name \in ProviderFields THEN name ELSE "-"

\* C8 amended: an option whose name is caller-facing or is itself a
\* provider field name is sent under the provider field name, with the
\* value of the last option of the call that goes to that field; every
\* other option is absent from the parameters; and no provider option
\* field is sent that no option of the call goes to.
C8_OptionsTranslatedLastWins ==
    SentIntegration(last) =>
        /\ \A i \in DOMAIN last.kwargs :
              LET name  == last.kwargs[i][1]
                  field == FieldOf(name)
                  same  == {j \in DOMAIN last.kwargs :
                               FieldOf(last.kwargs[j][1]) = field}
                  final == CHOOSE j \in same : \A k \in same : k <= j
              IN  IF field # "-"
                  THEN /\ field \in DOMAIN last.params
                       /\ last.params[field] = last.kwargs[final][2]
                  ELSE name \notin DOMAIN last.params
        /\ \A field \in ProviderFields \cap DOMAIN last.params :
              \E i \in DOMAIN last.kwargs : FieldOf(last.kwargs[i][1]) = field

\* put_integration was sent for a call that gave request_templates and then
\* requestTemplates with another value.
C8_Witness ==
    /\ SentIntegration(last)
    /\ last.status = "ok"
    /\ last.kwargs = <<<<"request_templates", "v1">>,
                       <<"requestTemplates", "v2">>>>
    /\ last.params["requestTemplates"] = "v2"

\* The operation l is a deploy_to_stage call whose create-deployment went
\* through and whose stage update or stage create was rejected.
StageUpsertFailed(l) ==
    /\ l.op = "deploy_to_stage"
    /\ Len(l.calls) >= 2
    /\ l.calls[1] = Call("create_deployment", "ok")
    /\ l.calls[Len(l.calls)].name \in {"update_stage", "create_stage"}
    /\ l.calls[Len(l.calls)].res # "ok"

\* C12: when deploy_to_stage has created its deployment and the stage
\* update or stage create then fails, the call leaves exactly one new
\* deployment behind, no stage points at it, every stage is as it was
\* before the call, and the failure is raised.
C12_OrphanDeployment ==
    [][StageUpsertFailed(last')
       => /\ \E d \in deployments' \ deployments :
                /\ deployments' = deployments \cup {d}
                /\ d.api = api_id
                /\ \A s \in stages' : s.deploymentId # d.id
          /\ stages' = stages
          /\ last'.status \in {"RemoteError", "NotFound"}]_vars

\* update-stage was rejected for a stage that is still on the first
\* deployment, with a second deployment now held by the Api.
C12_Witness ==
    /\ StageUpsertFailed(last)
    /\ last.calls[Len(last.calls)].name = "update_stage"
    /\ StageOf(stages, last.api, last.stage).deploymentId = 1
    /\ [api |-> last.api, id |-> 2] \in deployments

\* C14: every verb in a node's methods map has a method on the node's
\* remote resource; add_method leaves the nodes as they were when
\* put-method fails, and otherwise adds the upper-cased verb to the node's
\* map, also when the method-response call that follows fails.
C14_LocalMethodsAreRemote ==
    [][/\ \A n \in DOMAIN nodes' : \A verb \in nodes'[n].methods :
              <<nodes'[n].resource_id, verb>> \in remote_methods'
       /\ last'.op = "add_method"
          => IF last'.calls[1].res # "ok"
             THEN nodes' = nodes /\ remote_methods' = remote_methods
             ELSE /\ nodes'[last'.node].methods =
                         nodes[last'.node].methods \cup {upper(last'.verb)}
                  /\ \A n \in DOMAIN nodes :
                         n # last'.node => nodes'[n] = nodes[n]]_vars

\* add_method's method-response call was rejected and the lower-case verb
\* the caller gave is in the node's map in upper case.
C14_Witness ==
    /\ last.op = "add_method"
    /\ last.status = "RemoteError"
    /\ Len(last.calls) = 2
    /\ last.verb = <<"g", "e", "t">>
    /\ nodes[last.node].methods = {<<"G", "E", "T">>}

\* The node the gateway object keeps for the remote resource of node n: the
\* node its creating create_resource call returned.
FirstNodeOf(n) == nodes[resources[nodes[n].resource_id]]

\* C13: a create_resource call that finds the child of an earlier call
\* returns that call's node: same resourceId, same fullPath and same
\* registered verbs (the verbs add_integration looks its verb up in).
C13_SecondCallReturnsFirstNode ==
    (/\ Returned(last) /\ ~CreatedChild(last)
     /\ nodes[last.ret].resource_id \in DOMAIN resources)
    => /\ nodes[last.ret].resource_id = FirstNodeOf(last.ret).resource_id
       /\ nodes[last.ret].path = FirstNodeOf(last.ret).path
       /\ nodes[last.ret].methods = FirstNodeOf(last.ret).methods

\* The resources in the listing process q holds that are the child q asked
\* for.
RaceMatch(q) ==
    {r \in q.items : /\ r.parentId = q.nodes[q.parent].resource_id
                     /\ r.pathPart = q.part}

SamePair(r, t) ==
    r.api = t.api /\ r.parentId = t.parentId /\ r.pathPart = t.pathPart

\* C11: with two processes running create_resource on the same Api, a
\* process decides on the listing it was given, not on the remote resources
\* at the time of its create call: with a match in its listing it creates
\* nothing and returns the match; with none it issues create-resource, and
\* an accepted one adds a resource for the pair whether or not another
\* process has created that pair since the listing. A second resource for a
\* pair appears only this way: the first was not in its creator's listing.
C11_CreateDecidedByListing ==
    [][\A p \in Procs :
         (procs[p].pc = "listed" /\ procs'[p].pc = "idle")
         => LET q == procs[p]
                l == procs'[p].last
                made == remote_resources' \ remote_resources
            IN  /\ RaceMatch(q) # {}
                   => /\ made = {}
                      /\ Len(l.calls) = 1
                      /\ \E r \in RaceMatch(q) :
                             procs'[p].nodes[l.ret].resource_id = r.id
                /\ RaceMatch(q) = {}
                   => /\ Len(l.calls) = 2
                      /\ l.calls[2].name = "create_resource"
                      /\ l.calls[2].res # "ok" => made = {}
                      /\ l.calls[2].res = "ok"
                         => \E r \in made :
                              /\ made = {r}
                              /\ r.api = q.api_id
                              /\ r.parentId = q.nodes[q.parent].resource_id
                              /\ r.pathPart = q.part
                              /\ procs'[p].nodes[l.ret].resource_id = r.id
                /\ \A r \in made, t \in remote_resources :
                       SamePair(r, t) => t \notin q.items]_vars

\* Both processes listed before either created, both issued an accepted
\* create-resource call for the same (parent, pathPart), and the Api now
\* has two resources for that pair, one returned to each process.
C11_Witness ==
    /\ \A p \in Procs :
          /\ procs[p].pc = "idle"
          /\ procs[p].last.status = "ok"
          /\ Len(procs[p].last.calls) = 2
          /\ procs[p].last.calls[2] = Call("create_resource", "ok")
          /\ procs[p].items = {RootOf("a0", 1)}
    /\ procs[1].part = procs[2].part
    /\ procs[1].parent = 1 /\ procs[2].parent = 1
    /\ \E r, t \in remote_resources :
          /\ r # t
          /\ SamePair(r, t)
          /\ procs[1].nodes[procs[1].last.ret].resource_id = r.id
          /\ procs[2].nodes[procs[2].last.ret].resource_id = t.id

====
